---- MODULE Spec2Model ----
(***************************************************************************)
(* Model of the DNSPod API client of libdns-rs (src/src/dnspod/api.rs):    *)
(* the request encoding of the eleven operations, the two suspension       *)
(* points of each operation (send, then JSON decoding), the status         *)
(* envelope check, and the TTL / record type accessors of the response     *)
(* types.                                                                  *)
(*                                                                         *)
(* Text is modelled character by character: a Rust String is a sequence of *)
(* one-character strings, so that formatting (to_string), parsing          *)
(* (str::parse) and concatenation are computed, not assumed.               *)
(* Option<T> is a sequence of length 0 (None) or 1 (Some).                 *)
(***************************************************************************)
EXTENDS Integers, Sequences, FiniteSets, TLC

VARIABLES
    login_token,  \* Client.login_token, set by Client::new
    pc,           \* per task: "idle", "await_send", "await_json", "done"
    op,           \* per task: the operation being run, or "none"
    args,         \* per task: the arguments the caller supplied, while the request is being built and sent
    inflight,     \* per task: Option of the request handed to the transport
    nreq,         \* per task: HTTP exchanges started by the current invocation
    resp,         \* per task: what the transport answered
    result,       \* per task: the value the operation returned
    acc           \* the accessor call in progress on a decoded value

vars == <<login_token, pc, op, args, inflight, nreq, resp, result, acc>>

----------------------------------------------------------------------------
(* Bounds of the model *)

\* largest number supplied for offset / length / mx / ttl and as a numeric id
MaxNum == 12
\* longest text of a ttl field
MaxTtlLen == 3

----------------------------------------------------------------------------
(* Option and text helpers *)

None == <<>>
Some(x) == <<x>>
IsSome(o) == Len(o) = 1

Digit(d) == CASE d = 0 -> "0" [] d = 1 -> "1" [] d = 2 -> "2" [] d = 3 -> "3"
              [] d = 4 -> "4" [] d = 5 -> "5" [] d = 6 -> "6" [] d = 7 -> "7"
              [] d = 8 -> "8" [] d = 9 -> "9"

\* u16/u32/u64 to_string(): decimal digits, no sign, no leading zero
RECURSIVE to_string(_)
to_string(n) == IF n < 10 THEN <<Digit(n)>>
                ELSE to_string(n \div 10) \o <<Digit(n % 10)>>

DigitVal(c) == CASE c = "0" -> 0 [] c = "1" -> 1 [] c = "2" -> 2 [] c = "3" -> 3
                 [] c = "4" -> 4 [] c = "5" -> 5 [] c = "6" -> 6 [] c = "7" -> 7
                 [] c = "8" -> 8 [] c = "9" -> 9 [] OTHER -> -1

RECURSIVE ParseDigits(_, _)
ParseDigits(s, a) ==
    IF s = <<>> THEN Some(a)
    ELSE IF DigitVal(Head(s)) < 0 THEN None
    ELSE ParseDigits(Tail(s), 10 * a + DigitVal(Head(s)))

\* str::parse::<u64>(): an optional leading '+', then one or more decimal
\* digits and nothing else; anything else is Err (here None).  The texts of
\* the model are far shorter than the 20 digits at which u64 overflows.
parse_u64(s) ==
    IF s = <<>> THEN None
    ELSE IF Head(s) = "+" THEN (IF Tail(s) = <<>> THEN None ELSE ParseDigits(Tail(s), 0))
    ELSE IF Head(s) = "-" THEN None
    ELSE ParseDigits(s, 0)

\* The literal keys of the form body, spelled out
S_login_token == <<"l", "o", "g", "i", "n", "_", "t", "o", "k", "e", "n">>
S_format == <<"f", "o", "r", "m", "a", "t">>
S_json == <<"j", "s", "o", "n">>
S_offset == <<"o", "f", "f", "s", "e", "t">>
S_length == <<"l", "e", "n", "g", "t", "h">>
S_domain_id == <<"d", "o", "m", "a", "i", "n", "_", "i", "d">>
S_domain == <<"d", "o", "m", "a", "i", "n">>
S_record_id == <<"r", "e", "c", "o", "r", "d", "_", "i", "d">>
S_sub_domain == <<"s", "u", "b", "_", "d", "o", "m", "a", "i", "n">>
S_record_type == <<"r", "e", "c", "o", "r", "d", "_", "t", "y", "p", "e">>
S_record_line == <<"r", "e", "c", "o", "r", "d", "_", "l", "i", "n", "e">>
S_value == <<"v", "a", "l", "u", "e">>
S_mx == <<"m", "x">>
S_ttl == <<"t", "t", "l">>
S_status == <<"s", "t", "a", "t", "u", "s">>

----------------------------------------------------------------------------
(* Request encoding *)

S_prefix(token) == S_login_token \o <<"=">> \o token \o <<"&">> \o S_format \o <<"=">> \o S_json

\* "&key=value" with every '&' and '=' of the value masked
Pair_masked(kv) ==
    <<"&">> \o kv[1] \o <<"=">>
        \o [i \in 1..Len(kv[2]) |-> IF kv[2][i] \in {"&", "="} THEN "%" ELSE kv[2][i]]

\* One "&key=value" of the body, as format!("&{}={}", key, value) writes it
Pair(kv) == <<"&">> \o kv[1] \o <<"=">> \o kv[2]

RECURSIVE AppendPairs(_, _)
AppendPairs(form, params) ==
    IF params = <<>> THEN form
    ELSE AppendPairs(form \o Pair(Head(params)), Tail(params))

\* Client::build_form_params: the login token and format=json, then every
\* parameter of the slice in order
build_form_params(token, params) == AppendPairs(S_prefix(token), params)

\* The params.iter().fold(...) of list_records, create_record and
\* modify_record, which builds the body without build_form_params
RECURSIVE fold_form(_, _)
fold_form(acc0, params) ==
    IF params = <<>> THEN acc0
    ELSE fold_form(acc0 \o <<"&">> \o Head(params)[1] \o <<"=">> \o Head(params)[2], Tail(params))

\* the optional parameter pushed with an empty value when it is None
PushOptAlways(params, key, opt) ==
    Append(params, <<key, IF IsSome(opt) THEN to_string(opt[1]) ELSE <<>>>>)

\* if let Some(x) = opt { params.push((key, x.to_string())) }
PushOpt(params, key, opt) ==
    IF IsSome(opt) THEN Append(params, <<key, to_string(opt[1])>>) ELSE params

----------------------------------------------------------------------------
(* JSON values, as serde_json reads them off the wire *)

JStr(s) == [t |-> "str", s |-> s]
JNum(n) == [t |-> "num", n |-> n]
JNull == [t |-> "null"]
JObj(o) == [t |-> "obj", o |-> o]
JArr(a) == [t |-> "arr", a |-> a]
\* a body that is not JSON at all
Garbage == [t |-> "garbage"]

\* serde's outcome: Err, or Ok(v)
DecErr == [ok |-> FALSE]
DecOk(v) == [ok |-> TRUE, v |-> v]

Has(o, f) == f \in DOMAIN o

\* a field of type String without #[serde(default)]: must be there, as a JSON string
ReqStrOk(o, f) == Has(o, f) /\ o[f].t = "str"
\* a field of type Option<String>: a missing key or null is None, a JSON string
\* is Some, any other JSON type fails the decoding
OptStrOk(o, f) == Has(o, f) => o[f].t \in {"str", "null"}
OptStrVal(o, f) == IF Has(o, f) /\ o[f].t = "str" THEN Some(o[f].s) ELSE None
\* a field of type Option<u32>: a missing key or null is None, a non-negative
\* JSON number is Some
OptU32Ok(o, f) == Has(o, f) => (o[f].t = "null" \/ (o[f].t = "num" /\ o[f].n >= 0))
OptU32Val(o, f) == IF Has(o, f) /\ o[f].t = "num" THEN Some(o[f].n) ELSE None
\* a field of type serde_json::Value: any JSON value, but the key must be there
ReqValueOk(o, f) == Has(o, f)

\* A struct whose fields are Strings (R) and Option<String>s (O), read from a
\* JSON object; keys the struct does not name are ignored
DecodeFields(j, R, O) ==
    IF j.t = "obj" /\ (\A f \in R : ReqStrOk(j.o, f)) /\ (\A f \in O : OptStrOk(j.o, f))
    THEN DecOk([f \in R \cup O |-> IF f \in R THEN j.o[f].s ELSE OptStrVal(j.o, f)])
    ELSE DecErr

\* the value under key f, or a marker that no decoder accepts
Field(o, f) == IF Has(o, f) THEN o[f] ELSE [t |-> "absent"]

\* a field of type Option<T>, T a struct or a Vec, decoded as d when it is
\* there: a missing key or null is None
OptFieldOk(o, f, d) == (Has(o, f) /\ o[f].t # "null") => d.ok
OptFieldVal(o, f, d) == IF Has(o, f) /\ o[f].t # "null" THEN Some(d.v) ELSE None
\* a field holding a struct, without default, decoded as d
ReqFieldOk(o, f, d) == Has(o, f) /\ d.ok

Status(j) == DecodeFields(j, {"code", "message"}, {"created_at"})

StatusResponse(j) ==
    IF j.t = "obj" /\ ReqFieldOk(j.o, "status", Status(Field(j.o, "status")))
    THEN DecOk([status |-> Status(j.o.status).v])
    ELSE DecErr

DomainOptionals ==
    {"punycode", "grade", "grade_title", "status", "ext_status", "records",
     "group_id", "is_mark", "remark", "is_vip", "searchengine_push", "beian",
     "created_on", "updated_on", "ttl", "owner", "user_id"}

Domain(j) == DecodeFields(j, {"id", "name"}, DomainOptionals)

DomainListInfoFields ==
    {"domain_total", "all_total", "mine_total", "share_total", "vip_total",
     "ismark_total", "pause_total", "error_total", "lock_total", "spam_total",
     "vip_expire", "share_out_total"}

DomainListInfo(j) ==
    IF j.t = "obj" /\ (\A f \in DomainListInfoFields : OptU32Ok(j.o, f))
    THEN DecOk([f \in DomainListInfoFields |-> OptU32Val(j.o, f)])
    ELSE DecErr

\* Vec<Domain>: a JSON array whose every element is a Domain
DomainVec(j) ==
    IF j.t = "arr" /\ (\A i \in 1..Len(j.a) : Domain(j.a[i]).ok)
    THEN DecOk([i \in 1..Len(j.a) |-> Domain(j.a[i]).v])
    ELSE DecErr

DomainListResponse(j) ==
    IF /\ j.t = "obj"
       /\ ReqFieldOk(j.o, "status", Status(Field(j.o, "status")))
       /\ OptFieldOk(j.o, "info", DomainListInfo(Field(j.o, "info")))
       /\ OptFieldOk(j.o, "domains", DomainVec(Field(j.o, "domains")))
    THEN DecOk([status |-> Status(j.o.status).v,
                info |-> OptFieldVal(j.o, "info", DomainListInfo(Field(j.o, "info"))),
                domains |-> OptFieldVal(j.o, "domains", DomainVec(Field(j.o, "domains")))])
    ELSE DecErr

DomainInfoResponse(j) ==
    IF j.t = "obj" /\ ReqFieldOk(j.o, "status", Status(Field(j.o, "status"))) /\ ReqFieldOk(j.o, "domain", Domain(Field(j.o, "domain")))
    THEN DecOk([status |-> Status(j.o.status).v, domain |-> Domain(j.o.domain).v])
    ELSE DecErr

DomainCreateDomain(j) == DecodeFields(j, {"id"}, {"punycode", "domain"})

DomainCreateResponse(j) ==
    IF j.t = "obj" /\ ReqFieldOk(j.o, "status", Status(Field(j.o, "status"))) /\ ReqFieldOk(j.o, "domain", DomainCreateDomain(Field(j.o, "domain")))
    THEN DecOk([status |-> Status(j.o.status).v, domain |-> DomainCreateDomain(j.o.domain).v])
    ELSE DecErr

RecordOptionals ==
    {"line", "type", "ttl", "mx", "enabled", "status", "monitor_status",
     "remark", "updated_on", "hold"}

\* struct Record; its field record_type is the JSON key "type"
Record(j) == DecodeFields(j, {"id", "name", "value"}, RecordOptionals)

RecordInfo(j) ==
    DecodeFields(j, {"id", "sub_domain", "record_type", "record_line", "value"},
                 {"mx", "ttl", "enabled", "monitor_status", "remark", "updated_on", "domain_id"})

RecordListInfo(j) == DecodeFields(j, {}, {"sub_domains", "record_total"})

RecordListDomain(j) == DecodeFields(j, {"id", "name"}, {"punycode", "grade", "owner"})

\* Vec<Record>: a JSON array whose every element is a Record
RecordVec(j) ==
    IF j.t = "arr" /\ (\A i \in 1..Len(j.a) : Record(j.a[i]).ok)
    THEN DecOk([i \in 1..Len(j.a) |-> Record(j.a[i]).v])
    ELSE DecErr

RecordListResponse(j) ==
    IF /\ j.t = "obj"
       /\ ReqFieldOk(j.o, "status", Status(Field(j.o, "status")))
       /\ OptFieldOk(j.o, "domain", RecordListDomain(Field(j.o, "domain")))
       /\ OptFieldOk(j.o, "info", RecordListInfo(Field(j.o, "info")))
       /\ OptFieldOk(j.o, "records", RecordVec(Field(j.o, "records")))
    THEN DecOk([status |-> Status(j.o.status).v,
                domain |-> OptFieldVal(j.o, "domain", RecordListDomain(Field(j.o, "domain"))),
                info |-> OptFieldVal(j.o, "info", RecordListInfo(Field(j.o, "info"))),
                records |-> OptFieldVal(j.o, "records", RecordVec(Field(j.o, "records")))])
    ELSE DecErr

RecordInfoDomain(j) == DecodeFields(j, {"id", "domain"}, {"domain_grade"})

RecordInfoResponse(j) ==
    IF /\ j.t = "obj"
       /\ ReqFieldOk(j.o, "status", Status(Field(j.o, "status")))
       /\ ReqFieldOk(j.o, "domain", RecordInfoDomain(Field(j.o, "domain")))
       /\ ReqFieldOk(j.o, "record", RecordInfo(Field(j.o, "record")))
    THEN DecOk([status |-> Status(j.o.status).v,
                domain |-> RecordInfoDomain(j.o.domain).v,
                record |-> RecordInfo(j.o.record).v])
    ELSE DecErr

RecordCreateRecord(j) == DecodeFields(j, {"id", "name"}, {"status"})

RecordCreateResponse(j) ==
    IF j.t = "obj" /\ ReqFieldOk(j.o, "status", Status(Field(j.o, "status"))) /\ ReqFieldOk(j.o, "record", RecordCreateRecord(Field(j.o, "record")))
    THEN DecOk([status |-> Status(j.o.status).v, record |-> RecordCreateRecord(j.o.record).v])
    ELSE DecErr

\* the record with its id declared a String
StringIdRecord(j, O) ==
    IF /\ j.t = "obj"
       /\ ReqStrOk(j.o, "id")
       /\ ReqStrOk(j.o, "name")
       /\ \A f \in O : OptStrOk(j.o, f)
    THEN DecOk([f \in {"id", "name"} \cup O |->
                  IF f = "id" THEN j.o.id
                  ELSE IF f = "name" THEN j.o.name.s
                  ELSE OptStrVal(j.o, f)])
    ELSE DecErr

\* RecordModifyRecord and RecordStatusRecord: id is a serde_json::Value, kept
\* as the JSON value that arrived; the other fields as usual
ValueIdRecord(j, O) ==
    IF /\ j.t = "obj"
       /\ ReqValueOk(j.o, "id")
       /\ ReqStrOk(j.o, "name")
       /\ \A f \in O : OptStrOk(j.o, f)
    THEN DecOk([f \in {"id", "name"} \cup O |->
                  IF f = "id" THEN j.o.id
                  ELSE IF f = "name" THEN j.o.name.s
                  ELSE OptStrVal(j.o, f)])
    ELSE DecErr

RecordModifyRecord(j) == ValueIdRecord(j, {"value", "status"})

RecordModifyResponse(j) ==
    IF j.t = "obj" /\ ReqFieldOk(j.o, "status", Status(Field(j.o, "status"))) /\ ReqFieldOk(j.o, "record", RecordModifyRecord(Field(j.o, "record")))
    THEN DecOk([status |-> Status(j.o.status).v, record |-> RecordModifyRecord(j.o.record).v])
    ELSE DecErr

RecordStatusRecord(j) == ValueIdRecord(j, {"status"})

RecordStatusResponse(j) ==
    IF j.t = "obj" /\ ReqFieldOk(j.o, "status", Status(Field(j.o, "status"))) /\ ReqFieldOk(j.o, "record", RecordStatusRecord(Field(j.o, "record")))
    THEN DecOk([status |-> Status(j.o.status).v, record |-> RecordStatusRecord(j.o.record).v])
    ELSE DecErr

\* The id of a modified record as text, whichever way it arrived: the text of
\* a JSON string, the decimal digits of a JSON number
record_id_text(v) ==
    IF v.t = "str" THEN Some(v.s)
    ELSE IF v.t = "num" THEN Some(to_string(v.n))
    ELSE None

----------------------------------------------------------------------------
(* Results and the status check of each operation *)

\* Result<_, DnspodError>
Ok(v) == [kind |-> "Ok", value |-> v]
\* DnspodError::Request(reqwest::Error), with what failed
ErrRequest(why) == [kind |-> "Request", err |-> why]
\* DnspodError::Api(Status)
ErrApi(st) == [kind |-> "Api", status |-> st]
NoResult == [kind |-> "none"]

Code1 == <<"1">>
Code10 == <<"1", "0">>

\* response.json().await.map_err(DnspodError::Request)?  followed by the
\* status check, operation by operation
\* list_domains with the decoding failure reported as a provider failure
list_domains_finish_decode_as_api(j) ==
    LET d == DomainListResponse(j) IN
    IF ~d.ok THEN ErrApi([code |-> <<>>, message |-> <<>>, created_at |-> None])
    ELSE IF d.v.status.code # Code1 THEN ErrApi(d.v.status)
    ELSE Ok(d.v)

list_domains_finish(j) ==
    LET d == DomainListResponse(j) IN
    IF ~d.ok THEN ErrRequest("decode")
    ELSE IF d.v.status.code # Code1 THEN ErrApi(d.v.status)
    ELSE Ok(d.v)

get_domain_finish(j) ==
    LET d == DomainInfoResponse(j) IN
    IF ~d.ok THEN ErrRequest("decode")
    ELSE IF d.v.status.code # Code1 THEN ErrApi(d.v.status)
    ELSE Ok(d.v)

get_domain_by_name_finish(j) ==
    LET d == DomainInfoResponse(j) IN
    IF ~d.ok THEN ErrRequest("decode")
    ELSE IF d.v.status.code # Code1 THEN ErrApi(d.v.status)
    ELSE Ok(d.v)

create_domain_finish(j) ==
    LET d == DomainCreateResponse(j) IN
    IF ~d.ok THEN ErrRequest("decode")
    ELSE IF d.v.status.code # Code1 THEN ErrApi(d.v.status)
    ELSE Ok(d.v)

delete_domain_finish(j) ==
    LET d == StatusResponse(j) IN
    IF ~d.ok THEN ErrRequest("decode")
    ELSE IF d.v.status.code # Code1 THEN ErrApi(d.v.status)
    ELSE Ok(d.v)

\* list_records with the empty-result branch taken for code "1" as well
list_records_finish_merged(j) ==
    LET d == RecordListResponse(j) IN
    IF ~d.ok THEN ErrRequest("decode")
    ELSE IF d.v.status.code \in {Code1, Code10}
         THEN Ok([status |-> d.v.status, domain |-> d.v.domain,
                  info |-> d.v.info, records |-> Some(<<>>)])
    ELSE ErrApi(d.v.status)

\* list_records without the empty-result branch
list_records_finish_plain(j) ==
    LET d == RecordListResponse(j) IN
    IF ~d.ok THEN ErrRequest("decode")
    ELSE IF d.v.status.code # Code1 THEN ErrApi(d.v.status)
    ELSE Ok(d.v)

list_records_finish(j) ==
    LET d == RecordListResponse(j) IN
    IF ~d.ok THEN ErrRequest("decode")
    ELSE IF d.v.status.code # Code1
         THEN IF d.v.status.code = Code10
              THEN Ok([status |-> d.v.status,
                       domain |-> d.v.domain,
                       info |-> d.v.info,
                       records |-> Some(<<>>)])
              ELSE ErrApi(d.v.status)
    ELSE Ok(d.v)

\* get_record with code "10" taken for success, as list_records takes it
get_record_finish_code10(j) ==
    LET d == RecordInfoResponse(j) IN
    IF ~d.ok THEN ErrRequest("decode")
    ELSE IF d.v.status.code \notin {Code1, Code10} THEN ErrApi(d.v.status)
    ELSE Ok(d.v)

get_record_finish(j) ==
    LET d == RecordInfoResponse(j) IN
    IF ~d.ok THEN ErrRequest("decode")
    ELSE IF d.v.status.code # Code1 THEN ErrApi(d.v.status)
    ELSE Ok(d.v)

create_record_finish(j) ==
    LET d == RecordCreateResponse(j) IN
    IF ~d.ok THEN ErrRequest("decode")
    ELSE IF d.v.status.code # Code1 THEN ErrApi(d.v.status)
    ELSE Ok(d.v)

modify_record_finish(j) ==
    LET d == RecordModifyResponse(j) IN
    IF ~d.ok THEN ErrRequest("decode")
    ELSE IF d.v.status.code # Code1 THEN ErrApi(d.v.status)
    ELSE Ok(d.v)

delete_record_finish(j) ==
    LET d == StatusResponse(j) IN
    IF ~d.ok THEN ErrRequest("decode")
    ELSE IF d.v.status.code # Code1 THEN ErrApi(d.v.status)
    ELSE Ok(d.v)

set_record_status_finish(j) ==
    LET d == RecordStatusResponse(j) IN
    IF ~d.ok THEN ErrRequest("decode")
    ELSE IF d.v.status.code # Code1 THEN ErrApi(d.v.status)
    ELSE Ok(d.v)

Ops == {"list_domains", "get_domain", "get_domain_by_name", "create_domain",
        "delete_domain", "list_records", "get_record", "create_record",
        "modify_record", "delete_record", "set_record_status"}

\* the tail of the operation that is running
Finish(o, j) ==
    CASE o = "list_domains" -> list_domains_finish(j)
      [] o = "get_domain" -> get_domain_finish(j)
      [] o = "get_domain_by_name" -> get_domain_by_name_finish(j)
      [] o = "create_domain" -> create_domain_finish(j)
      [] o = "delete_domain" -> delete_domain_finish(j)
      [] o = "list_records" -> list_records_finish(j)
      [] o = "get_record" -> get_record_finish(j)
      [] o = "create_record" -> create_record_finish(j)
      [] o = "modify_record" -> modify_record_finish(j)
      [] o = "delete_record" -> delete_record_finish(j)
      [] o = "set_record_status" -> set_record_status_finish(j)

\* the response type each operation's signature names
Shape(o, j) ==
    CASE o = "list_domains" -> DomainListResponse(j)
      [] o \in {"get_domain", "get_domain_by_name"} -> DomainInfoResponse(j)
      [] o = "create_domain" -> DomainCreateResponse(j)
      [] o \in {"delete_domain", "delete_record"} -> StatusResponse(j)
      [] o = "list_records" -> RecordListResponse(j)
      [] o = "get_record" -> RecordInfoResponse(j)
      [] o = "create_record" -> RecordCreateResponse(j)
      [] o = "modify_record" -> RecordModifyResponse(j)
      [] o = "set_record_status" -> RecordStatusResponse(j)

----------------------------------------------------------------------------
(* Accessors of the response types *)

\* Domain::get_ttl
Domain_get_ttl(self) ==
    LET p == IF IsSome(self.ttl) THEN parse_u64(self.ttl[1]) ELSE None
    IN IF IsSome(p) THEN p[1] ELSE 600

\* Record::get_ttl falling back to the domain's constant
Record_get_ttl_fixed(self, default_ttl) ==
    LET p == IF IsSome(self.ttl) THEN parse_u64(self.ttl[1]) ELSE None
    IN IF IsSome(p) THEN p[1] ELSE 600

\* Record::get_ttl
Record_get_ttl(self, default_ttl) ==
    LET p == IF IsSome(self.ttl) THEN parse_u64(self.ttl[1]) ELSE None
    IN IF IsSome(p) THEN p[1] ELSE default_ttl

\* Record::get_type falling back to the empty text
Record_get_type_empty(self) == IF IsSome(self.type) THEN self.type[1] ELSE <<>>

\* Record::get_type; the field record_type is the JSON key "type"
Record_get_type(self) == IF IsSome(self.type) THEN self.type[1] ELSE <<"A">>

\* RecordInfo::get_ttl
RecordInfo_get_ttl(self, default_ttl) ==
    LET p == IF IsSome(self.ttl) THEN parse_u64(self.ttl[1]) ELSE None
    IN IF IsSome(p) THEN p[1] ELSE default_ttl

----------------------------------------------------------------------------
(* Inputs: what callers pass and what the provider may answer *)

Tasks == {1, 2}

EmptyObj == [x \in {} |-> x]

\* login tokens a client is constructed with
Tokens == {<<"i", ",", "k">>, <<"t", "&", "x">>}

\* texts passed for the &str parameters
ParamVals == {<<>>, <<"a">>, <<"x", "&", "t", "t", "l", "=", "1">>}

\* values passed for the Option<u32/u16/u64> parameters
OptNums == {None, Some(0), Some(MaxNum)}

Codes == {Code1, Code10, <<"-", "1">>, <<"2">>}

StatusJsons ==
    {JObj([code |-> JStr(c), message |-> JStr(<<"O", "K">>)]) : c \in Codes}
    \cup {JObj([code |-> JStr(c), message |-> JStr(<<"N", "o">>),
                created_at |-> JStr(<<"9">>)]) : c \in Codes}

\* status values that are not a Status
BadStatusJsons ==
    {JObj([code |-> JNum(1), message |-> JStr(<<"O", "K">>)]),
     JObj([code |-> JStr(Code1)]),
     JStr(Code1)}

\* the objects holding key k with one of the values vs, or not holding it
KeyParts(k, vs) == {EmptyObj} \cup {[x \in {k} |-> v] : v \in vs}

StatusParts == KeyParts("status", StatusJsons \cup BadStatusJsons)

DomainJsons ==
    {JObj([id |-> JStr(<<"1">>), name |-> JStr(<<"x", ".", "c">>)]),
     JObj([id |-> JStr(<<"2">>), name |-> JStr(<<"y">>), ttl |-> JStr(<<"6", "0">>),
           grade |-> JNull, unknown_key |-> JNum(3)])}

BadDomainJsons ==
    {JObj([id |-> JNum(1), name |-> JStr(<<"x", ".", "c">>)]),
     JObj([id |-> JStr(<<"1">>)]),
     JNull}

RecordJsons ==
    {JObj([id |-> JStr(<<"7">>), name |-> JStr(<<"w">>), value |-> JStr(<<"1", ".", "2">>)]),
     JObj([id |-> JStr(<<"8">>), name |-> JStr(<<"@">>), value |-> JStr(<<"m">>),
           type |-> JStr(<<"M", "X">>), ttl |-> JStr(<<"6", "0">>), mx |-> JStr(<<"5">>)])}

BadRecordJsons == {JObj([id |-> JStr(<<"7">>), name |-> JStr(<<"w">>)])}

RecordInfoJsons ==
    {JObj([id |-> JStr(<<"7">>), sub_domain |-> JStr(<<"w">>), record_type |-> JStr(<<"A">>),
           record_line |-> JStr(<<"d">>), value |-> JStr(<<"1", ".", "2">>)]),
     JObj([id |-> JStr(<<"7">>), sub_domain |-> JStr(<<"w">>), record_type |-> JStr(<<"A">>),
           record_line |-> JStr(<<"d">>), value |-> JStr(<<"1", ".", "2">>),
           ttl |-> JStr(<<"6", "0">>), mx |-> JNull])}

\* a record of Record.Info without its record_type
BadRecordInfoJsons ==
    {JObj([id |-> JStr(<<"7">>), sub_domain |-> JStr(<<"w">>),
           record_line |-> JStr(<<"d">>), value |-> JStr(<<"1", ".", "2">>)])}

\* the record of Record.Modify / Record.Status: the id as a string, as a
\* number, as null
ValueIdRecordJsons ==
    {JObj([id |-> i, name |-> JStr(<<"w">>)]) :
        i \in {JStr(to_string(MaxNum)), JNum(MaxNum), JStr(<<"7">>), JNum(7), JNull}}
    \cup {JObj([id |-> JNum(7), name |-> JStr(<<"w">>), status |-> JStr(<<"e">>)])}

BadValueIdRecordJsons ==
    {JObj([name |-> JStr(<<"w">>)]), JObj([id |-> JNum(7)])}

\* the payload keys of the answers to an operation
PayloadParts(o) ==
    CASE o = "list_domains" ->
           {a @@ b :
              a \in KeyParts("info", {JNull, JObj([domain_total |-> JNum(2)]),
                                      JObj([domain_total |-> JStr(<<"2">>)])}),
              b \in KeyParts("domains",
                     {JNull, JArr(<<>>), JArr(<<JNull>>)}
                     \cup {JArr(<<d>>) : d \in DomainJsons}
                     \cup {JArr(<<d, e>>) : d \in DomainJsons, e \in DomainJsons \cup BadDomainJsons})}
      [] o \in {"get_domain", "get_domain_by_name"} ->
           KeyParts("domain", DomainJsons \cup BadDomainJsons)
      [] o = "create_domain" ->
           KeyParts("domain",
                    {JObj([id |-> JStr(<<"3">>)]),
                     JObj([id |-> JStr(<<"3">>), punycode |-> JStr(<<"p">>), domain |-> JStr(<<"p">>)]),
                     JObj([punycode |-> JStr(<<"p">>)])})
      [] o \in {"delete_domain", "delete_record"} ->
           KeyParts("unknown_key", {JNum(1)})
      [] o = "list_records" ->
           {a @@ b @@ c :
              a \in KeyParts("domain", {JObj([id |-> JStr(<<"1">>), name |-> JStr(<<"x", ".", "c">>)]),
                                        JObj([id |-> JStr(<<"1">>)])}),
              b \in KeyParts("info", {JObj([sub_domains |-> JStr(<<"2">>), record_total |-> JStr(<<"2">>)])}),
              c \in KeyParts("records",
                     {JNull, JArr(<<>>)}
                     \cup {JArr(<<r>>) : r \in RecordJsons \cup BadRecordJsons}
                     \cup {JArr(<<r, q>>) : r \in RecordJsons, q \in RecordJsons})}
      [] o = "get_record" ->
           {a @@ b :
              a \in KeyParts("domain", {JObj([id |-> JStr(<<"1">>), domain |-> JStr(<<"x", ".", "c">>)])}),
              b \in KeyParts("record", RecordInfoJsons \cup BadRecordInfoJsons)}
      [] o = "create_record" ->
           KeyParts("record",
                    {JObj([id |-> JStr(<<"1", "0", "0">>), name |-> JStr(<<"w">>)]),
                     JObj([id |-> JStr(<<"1", "0", "0">>), name |-> JStr(<<"w">>), status |-> JStr(<<"e">>)]),
                     JObj([id |-> JNum(100), name |-> JStr(<<"w">>)])})
      [] o \in {"modify_record", "set_record_status"} ->
           KeyParts("record", ValueIdRecordJsons \cup BadValueIdRecordJsons)

\* the bodies the provider (or anything between) may answer an operation with
Wires(o) ==
    {JObj(s @@ q) : s \in StatusParts, q \in PayloadParts(o)}
    \cup {Garbage, JArr(<<>>)}

\* every text of at most n characters of A
Strs(A, n) == UNION {[1..k -> A] : k \in 0..n}

\* the ttl field of a domain or record as it may arrive: any short text of
\* digits, a sign and a letter, or null (or no key at all)
TtlJsons == {JNull} \cup {JStr(s) : s \in Strs({"0", "6", "+", "x"}, MaxTtlLen)}

\* domains, records and record infos as they arrive, to call the accessors on
DomainAccJsons ==
    {JObj([id |-> JStr(<<"1">>), name |-> JStr(<<"x", ".", "c">>)] @@ a) :
        a \in KeyParts("ttl", TtlJsons)}

RecordAccJsons ==
    {JObj([id |-> JStr(<<"7">>), name |-> JStr(<<"w">>), value |-> JStr(<<"1", ".", "2">>)]
          @@ a @@ b) :
        a \in KeyParts("ttl", TtlJsons),
        b \in KeyParts("type", {JNull, JNum(1), JStr(<<>>), JStr(<<"A">>), JStr(<<"M", "X">>)})}

RecordInfoAccJsons ==
    {JObj([id |-> JStr(<<"7">>), sub_domain |-> JStr(<<"w">>), record_type |-> JStr(<<"A">>),
           record_line |-> JStr(<<"d">>), value |-> JStr(<<"1", ".", "2">>)] @@ a) :
        a \in KeyParts("ttl", TtlJsons)}

\* defaults a caller passes to Record::get_ttl and RecordInfo::get_ttl
DefaultTtls == {600, 300}

\* the inputs of a specification
Wide == [strs |-> ParamVals, optnums |-> OptNums, wires |-> [o \in Ops |-> Wires(o)]]

\* one sound payload for each operation
SoundPayload(o) ==
    CASE o = "list_domains" ->
           [domains |-> JArr(<<JObj([id |-> JStr(<<"1">>), name |-> JStr(<<"x", ".", "c">>)])>>)]
      [] o \in {"get_domain", "get_domain_by_name"} ->
           [domain |-> JObj([id |-> JStr(<<"1">>), name |-> JStr(<<"x", ".", "c">>)])]
      [] o = "create_domain" -> [domain |-> JObj([id |-> JStr(<<"3">>)])]
      [] o \in {"delete_domain", "delete_record"} -> EmptyObj
      [] o = "list_records" ->
           [records |-> JArr(<<JObj([id |-> JStr(<<"7">>), name |-> JStr(<<"w">>),
                                     value |-> JStr(<<"1", ".", "2">>)])>>)]
      [] o = "get_record" ->
           [domain |-> JObj([id |-> JStr(<<"1">>), domain |-> JStr(<<"x", ".", "c">>)]),
            record |-> JObj([id |-> JStr(<<"7">>), sub_domain |-> JStr(<<"w">>),
                             record_type |-> JStr(<<"A">>), record_line |-> JStr(<<"d">>),
                             value |-> JStr(<<"1", ".", "2">>)])]
      [] o = "create_record" ->
           [record |-> JObj([id |-> JStr(<<"1", "0", "0">>), name |-> JStr(<<"w">>)])]
      [] o \in {"modify_record", "set_record_status"} ->
           [record |-> JObj([id |-> JNum(7), name |-> JStr(<<"w">>)])]

\* few answers for each operation: its sound payload under code "1" and
\* under code "10", and a body that is not JSON
FewWires(o) ==
    {JObj([status |-> JObj([code |-> JStr(c), message |-> JStr(<<"O", "K">>)])] @@ SoundPayload(o)) :
        c \in {Code1, Code10}}
    \cup {Garbage}

\* the inputs of the specification in which two tasks share the client
Narrow == [strs |-> {<<"a">>, <<"b">>}, optnums |-> {None},
           wires |-> [o \in Ops |-> FewWires(o)]]

----------------------------------------------------------------------------
(* The client and its operations *)

DNSPOD_API_URL == "https://api.dnspod.com"

NoResp == [t |-> "none"]

\* the state right after Client::new(login_token): the token is stored as given
Init ==
    /\ login_token \in Tokens
    /\ pc = [t \in Tasks |-> "idle"]
    /\ op = [t \in Tasks |-> "none"]
    /\ args = [t \in Tasks |-> EmptyObj]
    /\ inflight = [t \in Tasks |-> None]
    /\ nreq = [t \in Tasks |-> 0]
    /\ resp = [t \in Tasks |-> NoResp]
    /\ result = [t \in Tasks |-> NoResult]
    /\ acc = [fn |-> "none"]

\* a task may start an operation when it runs none
Ready(t) == pc[t] = "idle" /\ acc.fn = "none"

\* self.http_client.post(url).body(body).send(), up to the first .await
\* Post with the body built in place in the client's token
Post_into_token(t, o, url, body, a) ==
    /\ pc' = [pc EXCEPT ![t] = "await_send"]
    /\ op' = [op EXCEPT ![t] = o]
    /\ args' = [args EXCEPT ![t] = a]
    /\ inflight' = [inflight EXCEPT ![t] = Some([url |-> url, body |-> body])]
    /\ nreq' = [nreq EXCEPT ![t] = @ + 1]
    /\ login_token' = body
    /\ UNCHANGED <<resp, result, acc>>

Post(t, o, url, body, a) ==
    /\ pc' = [pc EXCEPT ![t] = "await_send"]
    /\ op' = [op EXCEPT ![t] = o]
    /\ args' = [args EXCEPT ![t] = a]
    /\ inflight' = [inflight EXCEPT ![t] = Some([url |-> url, body |-> body])]
    /\ nreq' = [nreq EXCEPT ![t] = @ + 1]
    /\ UNCHANGED <<login_token, resp, result, acc>>

list_domains(t, U) ==
    /\ Ready(t)
    /\ \E offset \in U.optnums, length \in U.optnums :
           LET params == PushOpt(PushOpt(<<>>, S_offset, offset), S_length, length)
           IN Post(t, "list_domains", DNSPOD_API_URL \o "/Domain.List",
                   build_form_params(login_token, params),
                   [offset |-> offset, length |-> length])

get_domain(t, U) ==
    /\ Ready(t)
    /\ \E domain_id \in U.strs :
           LET params == <<<<S_domain_id, domain_id>>>>
           IN Post(t, "get_domain", DNSPOD_API_URL \o "/Domain.Info",
                   build_form_params(login_token, params),
                   [domain_id |-> domain_id])

get_domain_by_name(t, U) ==
    /\ Ready(t)
    /\ \E domain \in U.strs :
           LET params == <<<<S_domain, domain>>>>
           IN Post(t, "get_domain_by_name", DNSPOD_API_URL \o "/Domain.Info",
                   build_form_params(login_token, params),
                   [domain |-> domain])

create_domain(t, U) ==
    /\ Ready(t)
    /\ \E domain \in U.strs :
           LET params == <<<<S_domain, domain>>>>
           IN Post(t, "create_domain", DNSPOD_API_URL \o "/Domain.Create",
                   build_form_params(login_token, params),
                   [domain |-> domain])

delete_domain(t, U) ==
    /\ Ready(t)
    /\ \E domain_id \in U.strs :
           LET params == <<<<S_domain_id, domain_id>>>>
           IN Post(t, "delete_domain", DNSPOD_API_URL \o "/Domain.Remove",
                   build_form_params(login_token, params),
                   [domain_id |-> domain_id])

list_records(t, U) ==
    /\ Ready(t)
    /\ \E domain_id \in U.strs, offset \in U.optnums, length \in U.optnums :
           LET params == PushOpt(PushOpt(<<<<S_domain_id, domain_id>>>>, S_offset, offset),
                                 S_length, length)
               form == fold_form(S_prefix(login_token), params)
           IN Post(t, "list_records", DNSPOD_API_URL \o "/Record.List", form,
                   [domain_id |-> domain_id, offset |-> offset, length |-> length])

get_record(t, U) ==
    /\ Ready(t)
    /\ \E domain_id \in U.strs, record_id \in U.strs :
           LET params == <<<<S_domain_id, domain_id>>, <<S_record_id, record_id>>>>
           IN Post(t, "get_record", DNSPOD_API_URL \o "/Record.Info",
                   build_form_params(login_token, params),
                   [domain_id |-> domain_id, record_id |-> record_id])

create_record(t, U) ==
    /\ Ready(t)
    /\ \E domain_id \in U.strs, sub_domain \in U.strs, record_type \in U.strs,
          record_line \in U.strs, value \in U.strs, mx \in U.optnums, ttl \in U.optnums :
           LET params == PushOpt(PushOpt(<<<<S_domain_id, domain_id>>,
                                           <<S_sub_domain, sub_domain>>,
                                           <<S_record_type, record_type>>,
                                           <<S_record_line, record_line>>,
                                           <<S_value, value>>>>,
                                         S_mx, mx), S_ttl, ttl)
               form == fold_form(S_prefix(login_token), params)
           IN Post(t, "create_record", DNSPOD_API_URL \o "/Record.Create", form,
                   [domain_id |-> domain_id, sub_domain |-> sub_domain,
                    record_type |-> record_type, record_line |-> record_line,
                    value |-> value, mx |-> mx, ttl |-> ttl])

modify_record(t, U) ==
    /\ Ready(t)
    /\ \E domain_id \in U.strs, record_id \in U.strs, sub_domain \in U.strs,
          record_type \in U.strs, record_line \in U.strs, value \in U.strs,
          mx \in U.optnums, ttl \in U.optnums :
           LET params == PushOpt(PushOpt(<<<<S_domain_id, domain_id>>,
                                           <<S_record_id, record_id>>,
                                           <<S_sub_domain, sub_domain>>,
                                           <<S_record_type, record_type>>,
                                           <<S_record_line, record_line>>,
                                           <<S_value, value>>>>,
                                         S_mx, mx), S_ttl, ttl)
               form == fold_form(S_prefix(login_token), params)
           IN Post(t, "modify_record", DNSPOD_API_URL \o "/Record.Modify", form,
                   [domain_id |-> domain_id, record_id |-> record_id,
                    sub_domain |-> sub_domain, record_type |-> record_type,
                    record_line |-> record_line, value |-> value, mx |-> mx, ttl |-> ttl])

delete_record(t, U) ==
    /\ Ready(t)
    /\ \E domain_id \in U.strs, record_id \in U.strs :
           LET params == <<<<S_domain_id, domain_id>>, <<S_record_id, record_id>>>>
           IN Post(t, "delete_record", DNSPOD_API_URL \o "/Record.Remove",
                   build_form_params(login_token, params),
                   [domain_id |-> domain_id, record_id |-> record_id])

set_record_status(t, U) ==
    /\ Ready(t)
    /\ \E domain_id \in U.strs, record_id \in U.strs, status \in U.strs :
           LET params == <<<<S_domain_id, domain_id>>, <<S_record_id, record_id>>,
                           <<S_status, status>>>>
           IN Post(t, "set_record_status", DNSPOD_API_URL \o "/Record.Status",
                   build_form_params(login_token, params),
                   [domain_id |-> domain_id, record_id |-> record_id, status |-> status])

\* .send().await fails: .map_err(DnspodError::Request)? returns from the operation
send_err(t) ==
    /\ pc[t] = "await_send"
    /\ pc' = [pc EXCEPT ![t] = "done"]
    /\ inflight' = [inflight EXCEPT ![t] = None]
    /\ args' = [args EXCEPT ![t] = EmptyObj]
    /\ resp' = [resp EXCEPT ![t] = [t |-> "send_failed"]]
    /\ result' = [result EXCEPT ![t] = ErrRequest("send")]
    /\ UNCHANGED <<login_token, op, nreq, acc>>

\* .send().await yields a Response: the request is gone, the body is yet to be read
send_ok(t) ==
    /\ pc[t] = "await_send"
    /\ pc' = [pc EXCEPT ![t] = "await_json"]
    /\ inflight' = [inflight EXCEPT ![t] = None]
    /\ args' = [args EXCEPT ![t] = EmptyObj]
    /\ UNCHANGED <<login_token, op, nreq, resp, result, acc>>

\* response.json().await fails while reading the body
json_err(t) ==
    /\ pc[t] = "await_json"
    /\ pc' = [pc EXCEPT ![t] = "done"]
    /\ resp' = [resp EXCEPT ![t] = [t |-> "body_failed"]]
    /\ result' = [result EXCEPT ![t] = ErrRequest("body")]
    /\ UNCHANGED <<login_token, op, args, inflight, nreq, acc>>

\* json_done sending the request again when the outcome is not success
json_done_retry(t, U) ==
    /\ pc[t] = "await_json"
    /\ \E w \in U.wires[op[t]] :
        IF Finish(op[t], w).kind = "Ok"
        THEN /\ resp' = [resp EXCEPT ![t] = w]
             /\ result' = [result EXCEPT ![t] = Finish(op[t], w)]
             /\ pc' = [pc EXCEPT ![t] = "done"]
             /\ UNCHANGED <<inflight, nreq>>
        ELSE /\ pc' = [pc EXCEPT ![t] = "await_send"]
             /\ inflight' = [inflight EXCEPT ![t] = Some([url |-> "", body |-> <<>>])]
             /\ nreq' = [nreq EXCEPT ![t] = @ + 1]
             /\ UNCHANGED <<resp, result>>
    /\ UNCHANGED <<login_token, op, args, acc>>

\* response.json().await has the whole body: decoding, the status check, return
json_done(t, U) ==
    /\ pc[t] = "await_json"
    /\ \E w \in U.wires[op[t]] :
        /\ resp' = [resp EXCEPT ![t] = w]
        /\ result' = [result EXCEPT ![t] = Finish(op[t], w)]
    /\ pc' = [pc EXCEPT ![t] = "done"]
    /\ UNCHANGED <<login_token, op, args, inflight, nreq, acc>>

\* the caller has the result; the task is free for its next call
return(t) ==
    /\ pc[t] = "done"
    /\ pc' = [pc EXCEPT ![t] = "idle"]
    /\ op' = [op EXCEPT ![t] = "none"]
    /\ nreq' = [nreq EXCEPT ![t] = 0]
    /\ resp' = [resp EXCEPT ![t] = NoResp]
    /\ result' = [result EXCEPT ![t] = NoResult]
    /\ UNCHANGED <<login_token, args, inflight, acc>>

AllIdle == \A t \in Tasks : pc[t] = "idle"

\* a caller decodes a Domain and asks for its TTL
read_domain ==
    /\ AllIdle
    /\ acc.fn = "none"
    /\ \E j \in DomainAccJsons :
        LET d == Domain(j) IN
        acc' = [fn |-> "Domain", json |-> j, self |-> d, default_ttl |-> 0,
                get_ttl |-> IF d.ok THEN Some(Domain_get_ttl(d.v)) ELSE None,
                get_type |-> None]
    /\ UNCHANGED <<login_token, pc, op, args, inflight, nreq, resp, result>>

\* a caller decodes a Record and asks for its TTL and its type
read_record ==
    /\ AllIdle
    /\ acc.fn = "none"
    /\ \E j \in RecordAccJsons, default_ttl \in DefaultTtls :
        LET d == Record(j) IN
        acc' = [fn |-> "Record", json |-> j, self |-> d, default_ttl |-> default_ttl,
                get_ttl |-> IF d.ok THEN Some(Record_get_ttl(d.v, default_ttl)) ELSE None,
                get_type |-> IF d.ok THEN Some(Record_get_type(d.v)) ELSE None]
    /\ UNCHANGED <<login_token, pc, op, args, inflight, nreq, resp, result>>

\* a caller decodes a RecordInfo and asks for its TTL
read_record_info ==
    /\ AllIdle
    /\ acc.fn = "none"
    /\ \E j \in RecordInfoAccJsons, default_ttl \in DefaultTtls :
        LET d == RecordInfo(j) IN
        acc' = [fn |-> "RecordInfo", json |-> j, self |-> d, default_ttl |-> default_ttl,
                get_ttl |-> IF d.ok THEN Some(RecordInfo_get_ttl(d.v, default_ttl)) ELSE None,
                get_type |-> None]
    /\ UNCHANGED <<login_token, pc, op, args, inflight, nreq, resp, result>>

\* the caller drops the decoded value
drop_value ==
    /\ acc.fn # "none"
    /\ acc' = [fn |-> "none"]
    /\ UNCHANGED <<login_token, pc, op, args, inflight, nreq, resp, result>>

Step(t, U) ==
    \/ list_domains(t, U)
    \/ get_domain(t, U)
    \/ get_domain_by_name(t, U)
    \/ create_domain(t, U)
    \/ delete_domain(t, U)
    \/ list_records(t, U)
    \/ get_record(t, U)
    \/ create_record(t, U)
    \/ modify_record(t, U)
    \/ delete_record(t, U)
    \/ set_record_status(t, U)
    \/ send_err(t)
    \/ send_ok(t)
    \/ json_err(t)
    \/ json_done(t, U)
    \/ return(t)

Next ==
    \/ Step(1, Wide)
    \/ read_domain
    \/ read_record
    \/ read_record_info
    \/ drop_value

Spec == Init /\ [][Next]_vars

\* two tasks call the operations of one client at the same time
NextConc == \E t \in Tasks : Step(t, Narrow)

SpecConc == Init /\ [][NextConc]_vars

\* the inputs of the specification of the request bodies: a plain value, a
\* value holding '=', and a value holding '&' and '='
FormVals == {<<"a">>, <<"a", "=", "b">>, <<"x", "&", "t", "t", "l", "=", "1">>}

Forms == [strs |-> FormVals, optnums |-> {None, Some(1)},
          wires |-> [o \in Ops |-> FewWires(o)]]

NextForm == Step(1, Forms)

SpecForm == Init /\ [][NextForm]_vars

----------------------------------------------------------------------------
(* Properties *)

Done(t) == pc[t] = "done"

\* the answer of task t read as the response type of its operation
Decoded(t) == Shape(op[t], resp[t])

\* a JSON value that is a status envelope: code and message are strings,
\* created_at, if there, a string or null
IsEnvelope(s) ==
    /\ s.t = "obj"
    /\ Has(s.o, "code") /\ s.o.code.t = "str"
    /\ Has(s.o, "message") /\ s.o.message.t = "str"
    /\ Has(s.o, "created_at") => s.o.created_at.t \in {"str", "null"}

\* the status codes an operation takes for success
SuccessCodes(o) == IF o = "list_records" THEN {Code1, Code10} ELSE {Code1}

\* C1: for each of the eleven operations, an answer that decodes into the
\* operation's response type with status code "1" makes the operation return
\* success, and the value returned is the decoded response, whole and unchanged.
C1_Code1ReturnsDecodedResponse ==
    \A t \in Tasks :
        (Done(t) /\ Decoded(t).ok /\ Decoded(t).v.status.code = Code1)
            => result[t] = Ok(Decoded(t).v)

\* C1 happens: create_record gets {"status":{"code":"1","message":"OK"},
\* "record":{"id":"100","name":"w"}} and returns success with record.id "100"
C1_Witness ==
    \E t \in Tasks :
        /\ Done(t)
        /\ op[t] = "create_record"
        /\ resp[t] = JObj([status |-> JObj([code |-> JStr(Code1), message |-> JStr(<<"O", "K">>)]),
                           record |-> JObj([id |-> JStr(<<"1", "0", "0">>), name |-> JStr(<<"w">>)])])
        /\ result[t].kind = "Ok"
        /\ result[t].value.record.id = <<"1", "0", "0">>

\* C2: list_records, given a decoded answer with status code "10", returns
\* success whose records are present and empty whatever the answer's records
\* were, and whose status, domain and info are those decoded from the answer.
C2_ListRecordsCode10IsEmptySuccess ==
    \A t \in Tasks :
        (Done(t) /\ op[t] = "list_records" /\ Decoded(t).ok
                 /\ Decoded(t).v.status.code = Code10)
            => /\ result[t].kind = "Ok"
               /\ result[t].value.records = Some(<<>>)
               /\ result[t].value.domain = Decoded(t).v.domain
               /\ result[t].value.info = Decoded(t).v.info
               /\ result[t].value.status = Decoded(t).v.status
               /\ IF Has(resp[t].o, "domain") /\ resp[t].o.domain.t = "obj"
                  THEN /\ IsSome(result[t].value.domain)
                       /\ result[t].value.domain[1].id = resp[t].o.domain.o.id.s
                  ELSE result[t].value.domain = None

\* C2 happens: code "10" with domain {id "1"} and one record in the answer
\* gives success with no records and domain.id "1"
C2_Witness ==
    \E t \in Tasks :
        /\ Done(t)
        /\ op[t] = "list_records"
        /\ resp[t].t = "obj"
        /\ Has(resp[t].o, "status") /\ IsEnvelope(resp[t].o.status)
        /\ resp[t].o.status.o.code.s = Code10
        /\ Has(resp[t].o, "records") /\ resp[t].o.records.t = "arr"
        /\ Len(resp[t].o.records.a) = 1
        /\ ~Has(resp[t].o, "info")
        /\ result[t].kind = "Ok"
        /\ result[t].value.records = Some(<<>>)
        /\ result[t].value.info = None
        /\ IsSome(result[t].value.domain)
        /\ result[t].value.domain[1].id = <<"1">>

\* C3: a decoded answer whose status code is not a success code of the
\* operation ("1"; for list_records "1" and "10") makes the operation return
\* DnspodError::Api carrying the code and the message of the answer; so code
\* "10" is a provider failure for every operation but list_records.
C3_OtherCodesAreApiErrors ==
    \A t \in Tasks :
        (Done(t) /\ Decoded(t).ok /\ Decoded(t).v.status.code \notin SuccessCodes(op[t]))
            => /\ result[t].kind = "Api"
               /\ result[t].status.code = resp[t].o.status.o.code.s
               /\ result[t].status.message = resp[t].o.status.o.message.s

\* C3 happens: get_record is answered code "10" with its payload and fails
\* with Api code "10"
C3_Witness ==
    \E t \in Tasks :
        /\ Done(t)
        /\ op[t] = "get_record"
        /\ Decoded(t).ok
        /\ resp[t].o.status.o.code.s = Code10
        /\ result[t].kind = "Api"
        /\ result[t].status.code = Code10
        /\ result[t].status.message = <<"N", "o">>

\* C4: a provider rejection that is a well-formed JSON object holding only a
\* status envelope with a code other than "1" makes any operation return
\* DnspodError::Api with that code and message, not DnspodError::Request.
\* (For list_records code "10" is no rejection.)
C4_EnvelopeOnlyRejectionIsApiError ==
    \A t \in Tasks :
        (/\ Done(t)
         /\ resp[t].t = "obj"
         /\ DOMAIN resp[t].o = {"status"}
         /\ IsEnvelope(resp[t].o.status)
         /\ resp[t].o.status.o.code.s \notin SuccessCodes(op[t]))
            => /\ result[t].kind = "Api"
               /\ result[t].status.code = resp[t].o.status.o.code.s
               /\ result[t].status.message = resp[t].o.status.o.message.s

\* C5: when the exchange fails, or the body does not decode into the
\* operation's response type, the operation returns DnspodError::Request, and
\* in no other case; every operation ends in success, Request or Api, and
\* success only on a success code.
C5_FailuresAreRequestErrors ==
    \A t \in Tasks :
        Done(t) =>
            /\ result[t].kind \in {"Ok", "Request", "Api"}
            /\ result[t].kind = "Request"
                 <=> (resp[t].t \in {"send_failed", "body_failed"} \/ ~Decoded(t).ok)
            /\ result[t].kind = "Ok" => Decoded(t).v.status.code \in SuccessCodes(op[t])

\* C5 happens: list_domains reads a JSON object with a sound envelope whose
\* info does not fit (a count sent as a string) and returns Request
C5_Witness ==
    \E t \in Tasks :
        /\ Done(t)
        /\ op[t] = "list_domains"
        /\ resp[t].t = "obj"
        /\ Has(resp[t].o, "status") /\ IsEnvelope(resp[t].o.status)
        /\ Has(resp[t].o, "info") /\ resp[t].o.info.t = "obj"
        /\ resp[t].o.info.o.domain_total.t = "str"
        /\ result[t].kind = "Request"

\* the parameters of each operation, in the order it defines them
RequiredKeys(o) ==
    CASE o = "list_domains" -> <<>>
      [] o \in {"get_domain", "delete_domain", "list_records"} -> <<"domain_id">>
      [] o \in {"get_domain_by_name", "create_domain"} -> <<"domain">>
      [] o \in {"get_record", "delete_record"} -> <<"domain_id", "record_id">>
      [] o = "create_record" ->
           <<"domain_id", "sub_domain", "record_type", "record_line", "value">>
      [] o = "modify_record" ->
           <<"domain_id", "record_id", "sub_domain", "record_type", "record_line", "value">>
      [] o = "set_record_status" -> <<"domain_id", "record_id", "status">>

OptionalKeys(o) ==
    CASE o \in {"list_domains", "list_records"} -> <<"offset", "length">>
      [] o \in {"create_record", "modify_record"} -> <<"mx", "ttl">>
      [] OTHER -> <<>>

KeyText(k) ==
    CASE k = "offset" -> S_offset [] k = "length" -> S_length
      [] k = "domain_id" -> S_domain_id [] k = "domain" -> S_domain
      [] k = "record_id" -> S_record_id [] k = "sub_domain" -> S_sub_domain
      [] k = "record_type" -> S_record_type [] k = "record_line" -> S_record_line
      [] k = "value" -> S_value [] k = "mx" -> S_mx [] k = "ttl" -> S_ttl
      [] k = "status" -> S_status

\* the key/value pairs a call supplies: the required ones, then the optional
\* ones that are Some
SuppliedKeys(o, a) ==
    RequiredKeys(o) \o SelectSeq(OptionalKeys(o), LAMBDA k : IsSome(a[k]))

RECURSIVE JoinPairs(_)
JoinPairs(ps) ==
    IF ps = <<>> THEN <<>>
    ELSE <<"&">> \o Head(ps)[1] \o <<"=">> \o Head(ps)[2] \o JoinPairs(Tail(ps))

ExpectedPairs(o, a) ==
    LET ks == SuppliedKeys(o, a) IN
    [i \in 1..Len(ks) |->
        <<KeyText(ks[i]),
          IF i <= Len(RequiredKeys(o)) THEN a[ks[i]] ELSE to_string(a[ks[i]][1])>>]

\* the number a text of decimal digits denotes
RECURSIVE NumVal(_)
NumVal(s) ==
    IF s = <<>> THEN 0
    ELSE DigitVal(s[Len(s)]) + 10 * NumVal(SubSeq(s, 1, Len(s) - 1))

\* the body read back as a form: cut at every '&', each piece cut at its first '='
\* where character c stands in s, in order
Positions(s, c) == SelectSeq([i \in 1..Len(s) |-> i], LAMBDA i : s[i] = c)

SplitOn(s, c) ==
    LET cuts == <<0>> \o Positions(s, c) \o <<Len(s) + 1>> IN
    [k \in 1..(Len(cuts) - 1) |-> SubSeq(s, cuts[k] + 1, cuts[k + 1] - 1)]

UpTo(s, c) ==
    IF Positions(s, c) = <<>> THEN s ELSE SubSeq(s, 1, Positions(s, c)[1] - 1)

After(s, c) ==
    IF Positions(s, c) = <<>> THEN <<>> ELSE SubSeq(s, Positions(s, c)[1] + 1, Len(s))

ParsedPairs(body) ==
    LET segs == SplitOn(body, "&") IN
    [i \in 1..Len(segs) |-> <<UpTo(segs[i], "="), After(segs[i], "=")>>]

Clean(s) == \A i \in 1..Len(s) : s[i] \notin {"&", "="}

\* C6: the body of every request is "login_token=<token>&format=json", then
\* "&key=value" for each required parameter in the operation's order, then
\* for each optional parameter the caller supplied; an omitted optional
\* parameter leaves no key in the body.  Read back as a form (when no text
\* holds '&' or '='), the body is exactly those pairs, and the text of a
\* supplied number denotes that number.
C6_RequestBodyIsTheSuppliedPairs ==
    \A t \in Tasks :
        pc[t] = "await_send" =>
            LET b == inflight[t][1].body
                e == ExpectedPairs(op[t], args[t])
                nr == Len(RequiredKeys(op[t]))
            IN /\ b = S_login_token \o <<"=">> \o login_token \o <<"&">> \o S_format
                        \o <<"=">> \o S_json \o JoinPairs(e)
               /\ (Clean(login_token) /\ \A i \in 1..nr : Clean(e[i][2]))
                    => /\ ParsedPairs(b) = <<<<S_login_token, login_token>>, <<S_format, S_json>>>> \o e
                       /\ \A i \in (nr + 1)..Len(e) :
                            NumVal(ParsedPairs(b)[i + 2][2]) = args[t][SuppliedKeys(op[t], args[t])[i]][1]
                       /\ \A i \in 1..Len(OptionalKeys(op[t])) :
                            LET k == OptionalKeys(op[t])[i] IN
                            IsSome(args[t][k]) <=>
                                \E n \in 1..Len(ParsedPairs(b)) : ParsedPairs(b)[n][1] = KeyText(k)

\* C6 happens: create_record is called with mx omitted and ttl supplied, and
\* the body ends in "&value=a&ttl=<MaxNum>" with no mx key
C6_Witness ==
    \E t \in Tasks :
        /\ pc[t] = "await_send"
        /\ op[t] = "create_record"
        /\ Clean(login_token)
        /\ \A i \in 1..5 : args[t][RequiredKeys("create_record")[i]] = <<"a">>
        /\ args[t].mx = None
        /\ args[t].ttl = Some(MaxNum)
        /\ LET pp == ParsedPairs(inflight[t][1].body) IN
           /\ Len(pp) = 8
           /\ pp[7] = <<S_value, <<"a">>>>
           /\ pp[8] = <<S_ttl, to_string(MaxNum)>>

\* a text that str::parse::<u64> accepts: decimal digits, at least one, after
\* an optional '+'
UIntDigits(s) == IF s # <<>> /\ Head(s) = "+" THEN Tail(s) ELSE s
Parsable(s) ==
    /\ UIntDigits(s) # <<>>
    /\ \A i \in 1..Len(UIntDigits(s)) : DigitVal(UIntDigits(s)[i]) >= 0

TtlArrived(j) == Has(j.o, "ttl") /\ j.o.ttl.t = "str"

\* C7: Domain::get_ttl is the number the ttl text denotes when the field is
\* there and parses as an unsigned integer, and 600 when it is absent or does
\* not parse; Record::get_ttl(d) and RecordInfo::get_ttl(d) are the number when
\* the field is there and parses, and d when the field is absent.
C7_TtlAccessorsApplyDefaults ==
    (acc.fn \in {"Domain", "Record", "RecordInfo"} /\ acc.self.ok) =>
        LET j == acc.json IN
        /\ (TtlArrived(j) /\ Parsable(j.o.ttl.s))
              => acc.get_ttl = Some(NumVal(UIntDigits(j.o.ttl.s)))
        /\ (acc.fn = "Domain" /\ ~(TtlArrived(j) /\ Parsable(j.o.ttl.s)))
              => acc.get_ttl = Some(600)
        /\ (acc.fn # "Domain" /\ ~Has(j.o, "ttl"))
              => acc.get_ttl = Some(acc.default_ttl)

\* C7 happens: a record without ttl, asked with default 300, gives 300
C7_Witness ==
    /\ acc.fn = "Record"
    /\ acc.self.ok
    /\ ~Has(acc.json.o, "ttl")
    /\ acc.default_ttl = 300
    /\ acc.get_ttl = Some(300)

SoundValueIdAnswer(j) ==
    /\ j.t = "obj"
    /\ Has(j.o, "status") /\ IsEnvelope(j.o.status)
    /\ Has(j.o, "record") /\ j.o.record.t = "obj"
    /\ Has(j.o.record.o, "name") /\ j.o.record.o.name.t = "str"
    /\ Has(j.o.record.o, "id") /\ j.o.record.o.id.t \in {"str", "num"}
    /\ \A f \in DOMAIN j.o.record.o \ {"id", "name"} : j.o.record.o[f].t \in {"str", "null"}

Endpoint(o) ==
    CASE o = "list_domains" -> "https://api.dnspod.com/Domain.List"
      [] o \in {"get_domain", "get_domain_by_name"} -> "https://api.dnspod.com/Domain.Info"
      [] o = "create_domain" -> "https://api.dnspod.com/Domain.Create"
      [] o = "delete_domain" -> "https://api.dnspod.com/Domain.Remove"
      [] o = "list_records" -> "https://api.dnspod.com/Record.List"
      [] o = "get_record" -> "https://api.dnspod.com/Record.Info"
      [] o = "create_record" -> "https://api.dnspod.com/Record.Create"
      [] o = "modify_record" -> "https://api.dnspod.com/Record.Modify"
      [] o = "delete_record" -> "https://api.dnspod.com/Record.Remove"
      [] o = "set_record_status" -> "https://api.dnspod.com/Record.Status"

\* C10: an invocation starts exactly one HTTP exchange, a POST to the
\* operation's endpoint, and whatever comes back (a transport failure, a body
\* that does not decode, a provider failure, code "10" for list_records) the
\* operation is done with a result and no second request has been made.
C10_OneExchangePerInvocation ==
    \A t \in Tasks :
        /\ nreq[t] = IF pc[t] = "idle" THEN 0 ELSE 1
        /\ pc[t] = "await_send"
              => (IsSome(inflight[t]) /\ inflight[t][1].url = Endpoint(op[t]))
        /\ pc[t] # "await_send" => inflight[t] = None
        /\ resp[t].t # "none" => (Done(t) /\ result[t].kind # "none")
        /\ Done(t) => resp[t].t # "none"

\* C10 happens: list_records was answered code "10" and is done after its
\* one request
C10_Witness ==
    \E t \in Tasks :
        /\ Done(t)
        /\ op[t] = "list_records"
        /\ Decoded(t).ok
        /\ Decoded(t).v.status.code = Code10
        /\ nreq[t] = 1
        /\ result[t].kind = "Ok"

\* what belongs to task u
TaskState(u) == <<pc[u], op[u], args[u], inflight[u], nreq[u], resp[u], result[u]>>

\* C11: the client holds no state that changes after construction.  Whatever
\* token it was constructed with, and however the operations of two tasks
\* interleave, the stored token never changes and every request body starts
\* with "login_token=<that token>&format=json"; a request is made of the
\* task's own arguments and a result of the task's own answer, and a step of
\* one task leaves everything of the other task as it was.
C11_ClientIsImmutable ==
    /\ [](/\ login_token \in Tokens
          /\ \A t \in Tasks :
               /\ pc[t] = "await_send" =>
                    inflight[t][1].body =
                        S_login_token \o <<"=">> \o login_token \o <<"&">> \o S_format
                        \o <<"=">> \o S_json \o JoinPairs(ExpectedPairs(op[t], args[t]))
               /\ (Done(t) /\ resp[t].t \notin {"send_failed", "body_failed"}) =>
                    \A u \in Tasks :
                        (Done(u) /\ op[u] = op[t] /\ resp[u] = resp[t]) => result[u] = result[t]
               /\ (Done(t) /\ resp[t].t \in {"send_failed", "body_failed"}) =>
                    result[t].kind = "Request")
    /\ [][/\ login_token' = login_token
          /\ \A u \in Tasks : pc'[u] = pc[u] => TaskState(u)' = TaskState(u)
          /\ \A u \in Tasks :
               (pc[u] = "await_json" /\ pc'[u] = "done" /\ resp'[u].t # "body_failed")
                   => result'[u] = Finish(op[u], resp'[u])]_vars

\* C11 happens: while task 2 waits for its send, task 1 has finished another
\* operation, and the token, one holding '&', is the one in task 2's body
C11_Witness ==
    /\ login_token = <<"t", "&", "x">>
    /\ Done(1)
    /\ result[1].kind = "Api"
    /\ pc[2] = "await_send"
    /\ op[2] # op[1]
    /\ SubSeq(inflight[2][1].body, 1, 15) = S_login_token \o <<"=">> \o login_token

\* the body cut at every '&', and each piece cut at every '='
SplitPairs(body) ==
    LET segs == SplitOn(body, "&") IN
    [i \in 1..Len(segs) |-> SplitOn(segs[i], "=")]

\* how many characters the pairs from the i-th on take in the body
RECURSIVE TailLen(_, _)
TailLen(e, i) ==
    IF i > Len(e) THEN 0
    ELSE 2 + Len(e[i][1]) + Len(e[i][2]) + TailLen(e, i + 1)

\* the part of the body where the value of the i-th pair stands
ValueAt(b, e, i) ==
    LET from == Len(b) - TailLen(e, i) + Len(e[i][1]) + 3 IN
    SubSeq(b, from, from + Len(e[i][2]) - 1)

\* where the token stands in the body: after "login_token="
TokenAt(b) == SubSeq(b, Len(S_login_token) + 2, Len(S_login_token) + 1 + Len(login_token))

\* the pairs the caller hands over, the token's and format's first
Supplied(t) ==
    <<<<S_login_token, login_token>>, <<S_format, S_json>>>> \o ExpectedPairs(op[t], args[t])

\* C12: the token and every parameter value stand in the request body
\* character for character, nothing escaped and nothing added, so the body,
\* cut at '&' and '=', is exactly the supplied key/value pairs if and only if
\* neither the token nor a value holds '&' or '='; a value that holds '&'
\* puts into the body a piece that is no pair of the caller's.
C12_ValuesAreCopiedUnescaped ==
    \A t \in Tasks :
        pc[t] = "await_send" =>
            LET b == inflight[t][1].body
                e == ExpectedPairs(op[t], args[t])
                sp == SplitPairs(b)
                sup == Supplied(t)
            IN /\ Len(b) = Len(S_login_token) + Len(login_token) + Len(S_format) + Len(S_json) + 3
                              + TailLen(e, 1)
               /\ TokenAt(b) = login_token
               /\ \A i \in 1..Len(e) : ValueAt(b, e, i) = e[i][2]
               /\ (sp = sup) <=> \A i \in 1..Len(sup) : Clean(sup[i][2])
               /\ (\E i \in 1..Len(sup) : ~Clean(sup[i][2]))
                    => \E n \in 1..Len(sp) : \A i \in 1..Len(sup) : sp[n] # sup[i]

\* C12 happens: modify_record is called with the value "x&ttl=1" and no ttl,
\* every other text plain, and the body, cut as a form, carries the pair
\* ttl=1
C12_Witness ==
    \E t \in Tasks :
        /\ pc[t] = "await_send"
        /\ op[t] = "modify_record"
        /\ Clean(login_token)
        /\ args[t].value = <<"x", "&", "t", "t", "l", "=", "1">>
        /\ args[t].ttl = None
        /\ args[t].mx = None
        /\ \A i \in 1..5 : args[t][RequiredKeys("modify_record")[i]] = <<"a">>
        /\ LET sp == SplitPairs(inflight[t][1].body) IN
           /\ Len(sp) = 9
           /\ sp[8] = <<S_value, <<"x">>>>
           /\ sp[9] = <<S_ttl, <<"1">>>>

====
